---- MODULE Spec2Model ----
(***************************************************************************)
(* A model of the differentiable primitives of dezero/functions.py and of  *)
(* the corpus helpers of common/util.py.                                   *)
(*                                                                         *)
(* Part 1 (SpecPrim) follows the shapes of the arrays through forward and  *)
(* backward of every primitive.  Later parts follow array values, the      *)
(* computation graph, and the preprocess loop.                             *)
(***************************************************************************)
EXTENDS Integers, Sequences, FiniteSets, TLC

VARIABLES
    pc,        \* what has been called so far
    inputs,    \* the arguments of the primitive
    f,         \* the Function object of the call
    ygrad,     \* the gradient of the output, given to backward
    gxs,       \* the gradients backward returned
    nodes,     \* the Variables of the computation graph
    funcs,     \* the Functions of the computation graph
    ret,       \* the Variable the last call returned
    call,      \* the last call, with the graph it was made on
    train,     \* dezero.Config.train
    dout,      \* the last call of dropout and what it returned
    text,      \* preprocess: the argument
    words,     \* preprocess: the split text
    word_to_id,
    id_to_word,
    wpos,      \* preprocess: the position of the loop in words
    corpus,
    vocab_size,
    window_size,
    co_matrix,
    widx,      \* create_co_matrix: idx of the outer loop
    woff       \* create_co_matrix: i of the inner loop

primVars == <<inputs, f, ygrad, gxs>>

graphVars == <<nodes, funcs, ret, call>>

dropVars == <<train, dout>>

preVars == <<text, words, word_to_id, id_to_word, wpos, corpus>>

coVars == <<vocab_size, window_size, co_matrix, widx, woff>>

vars == <<pc, primVars, graphVars, dropVars, preVars, coVars>>

\* the variables that the calls of single primitives leave alone
notPrim == <<graphVars, dropVars, preVars, coVars>>

\* the variables that the calls on the graph leave alone
notGraph == <<primVars, dropVars, preVars, coVars>>

\* the variables that dropout leaves alone
notDrop == <<f, ygrad, gxs, graphVars, preVars, coVars>>

\* the variables that preprocess leaves alone
notPre == <<primVars, graphVars, dropVars, coVars>>

\* the variables that create_co_matrix leaves alone
notCo == <<primVars, graphVars, dropVars, text, words, word_to_id, id_to_word, wpos>>

(***************************************************************************)
(* Bounds                                                                  *)
(***************************************************************************)
\* largest extent of one axis of an input array
MaxDim == 2
\* largest number of axes of an input array
MaxRank == 2

(***************************************************************************)
(* Sequences and shapes (numpy's shape arithmetic)                         *)
(***************************************************************************)
SeqsUpTo(S, n) == UNION {[1..k -> S] : k \in 0..n}

Shapes == SeqsUpTo(1..MaxDim, MaxRank)

RECURSIVE Prod(_)
Prod(s) == IF s = <<>> THEN 1 ELSE Head(s) * Prod(Tail(s))

Max(a, b) == IF a >= b THEN a ELSE b

Rev(s) == [i \in 1..Len(s) |-> s[Len(s) + 1 - i]]

Ones(n) == [i \in 1..n |-> 1]

\* s with leading axes of extent 1, up to n axes
Pad(s, n) == Ones(n - Len(s)) \o s

\* numpy's broadcasting rule for two shapes
CanBroadcast(a, b) ==
    LET n == Max(Len(a), Len(b))
        pa == Pad(a, n)
        pb == Pad(b, n)
    IN \A i \in 1..n : pa[i] = pb[i] \/ pa[i] = 1 \/ pb[i] = 1

Broadcast(a, b) ==
    LET n == Max(Len(a), Len(b))
        pa == Pad(a, n)
        pb == Pad(b, n)
    IN [i \in 1..n |-> Max(pa[i], pb[i])]

\* xp.broadcast_to(x, shape) accepts shape iff x broadcasts to exactly shape
CanBroadcastTo(a, shape) ==
    /\ Len(a) <= Len(shape)
    /\ CanBroadcast(a, shape)
    /\ Broadcast(a, shape) = shape

\* a[k] of a Python tuple: 0-based, negative k counts from the end
Norm(k, n) == k % n

At0(s, k) == s[Norm(k, Len(s)) + 1]

\* the axes arguments numpy's transpose accepts for rank n
IsPerm(axes, n) ==
    /\ Len(axes) = n
    /\ \A i \in 1..n : axes[i] \in -n..(n - 1)
    /\ \A i, j \in 1..n : i # j => Norm(axes[i], n) # Norm(axes[j], n)

Perms(n) == {axes \in [1..n -> -n..(n - 1)] : IsPerm(axes, n)}

\* np.argsort(s): the 0-based positions of s in ascending order of value
argsort(s) ==
    [k \in 1..Len(s) |->
        (CHOOSE i \in 1..Len(s) :
            Cardinality({j \in 1..Len(s) :
                s[j] < s[i] \/ (s[j] = s[i] /\ j < i)}) = k - 1) - 1]

\* shape of x.transpose(axes)
TransposeShape(s, axes) == [i \in 1..Len(s) |-> At0(s, axes[i])]

\* shape of x.dot(W) for matrices
DotShape(a, b) == <<a[1], b[2]>>

CanDot(a, b) == Len(a) = 2 /\ Len(b) = 2 /\ a[2] = b[1]

\* s without its axis k (0-based), and with axis k set to 1
DropAxis(s, k) == [i \in 1..(Len(s) - 1) |-> IF i <= k THEN s[i] ELSE s[i + 1]]

OneAxis(s, k) == [i \in 1..Len(s) |-> IF i = k + 1 THEN 1 ELSE s[i]]

InsertAxis(s, k) ==
    [i \in 1..(Len(s) + 1) |->
        IF i <= k THEN s[i] ELSE IF i = k + 1 THEN 1 ELSE s[i - 1]]

(***************************************************************************)
(* Part 1.  Shapes through forward and backward of every primitive.        *)
(* A Variable is followed by the shape of its data only; kind "None" is a  *)
(* Variable whose data is None, kind "raise" an exception of the array     *)
(* library.                                                                *)
(***************************************************************************)
Arr(s) == [kind |-> "array", shape |-> s]

NoneVar == [kind |-> "None", shape |-> <<>>]

Raised == [kind |-> "raise", shape |-> <<>>]

IsArr(v) == v.kind = "array"

\* a broadcasting binary operator of Variables: add, sub, mul, div
ew(a, b) ==
    IF IsArr(a) /\ IsArr(b) /\ CanBroadcast(a.shape, b.shape)
    THEN Arr(Broadcast(a.shape, b.shape))
    ELSE Raised

\* x.reshape(shape)
Reshape_forward(x, shape) ==
    IF IsArr(x) /\ Prod(x.shape) = Prod(shape) THEN Arr(shape) ELSE Raised

reshape(x, shape) ==
    IF x.shape = shape THEN x ELSE Reshape_forward(x, shape)

\* x.transpose(axes); axes "None" reverses the axes
AxesNone == [none |-> TRUE, perm |-> <<>>]

Axes(perm) == [none |-> FALSE, perm |-> perm]

Transpose_forward(x, axes) ==
    IF ~IsArr(x) THEN Raised
    ELSE IF axes.none THEN Arr(Rev(x.shape))
    ELSE IF IsPerm(axes.perm, Len(x.shape))
    THEN Arr(TransposeShape(x.shape, axes.perm))
    ELSE Raised

transpose(x, axes) == Transpose_forward(x, axes)

\* Index expressions on axis 0: an integer, a list of integers, a slice
IntIdx(i) == [kind |-> "int", i |-> i, idx |-> <<>>, start |-> 0, stop |-> 0]

ListIdx(idx) == [kind |-> "list", i |-> 0, idx |-> idx, start |-> 0, stop |-> 0]

SliceIdx(a, b) == [kind |-> "slice", i |-> 0, idx |-> <<>>, start |-> a, stop |-> b]

\* the index expressions x[slices] accepts for an axis of extent n
MaxIdx == 2

Slices(n) ==
    {IntIdx(i) : i \in -n..(n - 1)}
    \cup {ListIdx(idx) : idx \in UNION {[1..k -> -n..(n - 1)] : k \in 1..MaxIdx}}
    \cup {SliceIdx(a, b) : a \in 0..(n - 1), b \in 1..n}

ValidSlices(s) ==
    IF s = <<>> THEN {} ELSE {sl \in Slices(s[1]) : sl.kind = "slice" => sl.start < sl.stop}

\* shape of x[slices]
IndexShape(s, slices) ==
    IF slices.kind = "int" THEN Tail(s)
    ELSE IF slices.kind = "list" THEN <<Len(slices.idx)>> \o Tail(s)
    ELSE <<slices.stop - slices.start>> \o Tail(s)

GetItem_forward(x, slices) ==
    IF IsArr(x) /\ slices \in ValidSlices(x.shape)
    THEN Arr(IndexShape(x.shape, slices)) ELSE Raised

get_item(x, slices) == GetItem_forward(x, slices)

\* gx = zeros(in_shape); add.at(gx, slices, gy)
GetItemGrad_forward(gy, slices, in_shape) ==
    IF /\ IsArr(gy)
       /\ slices \in ValidSlices(in_shape)
       /\ CanBroadcastTo(gy.shape, IndexShape(in_shape, slices))
    THEN Arr(in_shape) ELSE Raised

\* x.sum(axis, keepdims); axis "None" sums every axis
AxisNone == [none |-> TRUE, a |-> 0]

Axis(a) == [none |-> FALSE, a |-> a]

SumShape(s, axis, keepdims) ==
    IF axis.none THEN (IF keepdims THEN Ones(Len(s)) ELSE <<>>)
    ELSE IF keepdims THEN OneAxis(s, Norm(axis.a, Len(s)))
    ELSE DropAxis(s, Norm(axis.a, Len(s)))

ValidAxes(s) == {AxisNone} \cup {Axis(a) : a \in -Len(s)..(Len(s) - 1)}

Sum_forward(x, axis, keepdims) ==
    IF IsArr(x) /\ axis \in ValidAxes(x.shape)
    THEN Arr(SumShape(x.shape, axis, keepdims)) ELSE Raised

sum(x, axis, keepdims) == Sum_forward(x, axis, keepdims)

\* utils.reshape_sum_backward: gy with the summed axes put back as extent 1
reshape_sum_backward(gy, x_shape, axis, keepdims) ==
    IF ~IsArr(gy) THEN Raised
    ELSE IF Len(x_shape) = 0 \/ axis.none \/ keepdims
    THEN gy
    ELSE Reshape_forward(gy, InsertAxis(gy.shape, Norm(axis.a, Len(x_shape))))

\* utils.sum_to: sum the leading axes away and the axes where shape is 1
utils_sum_to(x, shape) ==
    LET lead == Len(x.shape) - Len(shape)
    IN IF IsArr(x) /\ lead >= 0
       THEN Arr([i \in 1..Len(shape) |->
                    IF shape[i] = 1 THEN 1 ELSE x.shape[i + lead]])
       ELSE Raised

SumTo_forward(x, shape) == utils_sum_to(x, shape)

sum_to(x, shape) ==
    IF x.shape = shape THEN x ELSE SumTo_forward(x, shape)

BroadcastTo_forward(x, shape) ==
    IF IsArr(x) /\ CanBroadcastTo(x.shape, shape) THEN Arr(shape) ELSE Raised

broadcast_to(x, shape) ==
    IF x.shape = shape THEN x ELSE BroadcastTo_forward(x, shape)

\* x.dot(W)
MatMul_forward(x, W) ==
    IF IsArr(x) /\ IsArr(W) /\ CanDot(x.shape, W.shape)
    THEN Arr(DotShape(x.shape, W.shape)) ELSE Raised

matmul(x, W) == MatMul_forward(x, W)

\* y = x.dot(W); if b is not None: y += b
Linear_forward(x, W, b) ==
    LET y == MatMul_forward(x, W)
    IN IF b.kind = "None" THEN y
       ELSE IF IsArr(y) /\ IsArr(b) /\ CanBroadcastTo(b.shape, y.shape) THEN y
       ELSE Raised

\* elementwise forward: sin, cos, tanh, exp, log, sigmoid, relu, clip
Elementwise_forward(x) == IF IsArr(x) THEN Arr(x.shape) ELSE Raised

\* y = x - x.max(axis, keepdims=True); y = exp(y); y /= y.sum(axis, keepdims=True)
Softmax_forward(x, axis) ==
    IF IsArr(x) /\ axis \in -Len(x.shape)..(Len(x.shape) - 1)
    THEN LET m == Arr(OneAxis(x.shape, Norm(axis, Len(x.shape))))
         IN ew(ew(x, m), m)
    ELSE Raised

softmax(x, axis) == Softmax_forward(x, axis)

\* diff = x0 - x1; y = (diff**2).sum() / len(diff)
MeanSquaredError_forward(x0, x1) ==
    LET diff == ew(x0, x1)
    IN IF IsArr(diff) /\ Len(diff.shape) >= 1 THEN Arr(<<>>) ELSE Raised

\* log_p = (x - logsumexp(x, axis=1))[arange(N), t.ravel()]; y = -log_p.sum() / N
SoftmaxCrossEntropy_forward(x, t) ==
    IF IsArr(x) /\ IsArr(t) /\ Len(x.shape) = 2 /\ t.shape = <<x.shape[1]>>
    THEN Arr(<<>>) ELSE Raised

(***************************************************************************)
(* backward of every primitive: the tuple of gradients it returns (a       *)
(* single return value is the tuple of that one value).  fn is the         *)
(* Function object: its inputs, its output y, and the attributes that      *)
(* __init__ and forward set.                                               *)
(***************************************************************************)
\* gx = gy * cos(x)
Sin_backward(fn, gy) == <<ew(gy, Elementwise_forward(fn.inputs[1]))>>

\* gx = gy * -sin(x)
Cos_backward(fn, gy) == <<ew(gy, Elementwise_forward(fn.inputs[1]))>>

\* gx = gy * (1 - y**2)
Tanh_backward(fn, gy) == <<ew(gy, ew(fn.y, fn.y))>>

\* gx = y * gy
Exp_backward(fn, gy) == <<ew(fn.y, gy)>>

\* gx = gy / x
Log_backward(fn, gy) == <<ew(gy, fn.inputs[1])>>

Reshape_backward(fn, gy) == <<reshape(gy, fn.attrs.x_shape)>>

\* the axes themselves instead of their inverse permutation
inv_axes_forgotten(axes) == [i \in 1..Len(axes) |-> axes[i] % Len(axes)]

\* inv_axes = tuple(np.argsort([ax % axes_len for ax in self.axes]))
inv_axes(axes) ==
    LET axes_len == Len(axes)
    IN argsort([i \in 1..axes_len |-> axes[i] % axes_len])

Transpose_backward(fn, gy) ==
    IF fn.attrs.axes.none
    THEN <<transpose(gy, AxesNone)>>
    ELSE <<transpose(gy, Axes(inv_axes(fn.attrs.axes.perm)))>>

GetItem_backward(fn, gy) ==
    <<GetItemGrad_forward(gy, fn.attrs.slices, fn.inputs[1].shape)>>

GetItemGrad_backward(fn, ggx) == <<get_item(ggx, fn.attrs.slices)>>

Sum_backward(fn, gy) ==
    LET g == reshape_sum_backward(gy, fn.attrs.x_shape, fn.attrs.axis,
                                  fn.attrs.keepdims)
    IN <<broadcast_to(g, fn.attrs.x_shape)>>

SumTo_backward(fn, gy) == <<broadcast_to(gy, fn.attrs.x_shape)>>

BroadcastTo_backward(fn, gy) == <<sum_to(gy, fn.attrs.x_shape)>>

MatMul_backward(fn, gy) ==
    LET x == fn.inputs[1]
        W == fn.inputs[2]
        gx == matmul(gy, transpose(W, AxesNone))
        gW == matmul(transpose(x, AxesNone), gy)
    IN <<gx, gW>>

Linear_backward(fn, gy) ==
    LET x == fn.inputs[1]
        W == fn.inputs[2]
        b == fn.inputs[3]
        gb == IF b.kind = "None" THEN NoneVar ELSE sum_to(gy, b.shape)
        gx == matmul(gy, transpose(W, AxesNone))
        gW == matmul(transpose(x, AxesNone), gy)
    IN <<gx, gW, gb>>

\* gx = gy * y * (1 - y)
Sigmoid_backward(fn, gy) == <<ew(ew(gy, fn.y), fn.y)>>

\* mask = x.data > 0; gx = gy * mask
ReLU_backward(fn, gy) == <<ew(gy, Arr(fn.inputs[1].shape))>>

Softmax_backward(fn, gy) ==
    LET y == fn.y
        gx == ew(y, gy)
        sumdx == sum(gx, Axis(fn.attrs.axis), TRUE)
    IN <<ew(gx, ew(y, sumdx))>>

MeanSquaredError_backward(fn, gy) ==
    LET x0 == fn.inputs[1]
        x1 == fn.inputs[2]
        diff == ew(x0, x1)
        g == broadcast_to(gy, diff.shape)
        gx0 == ew(ew(g, diff), Arr(<<>>))
        gx1 == gx0
    IN <<gx0, gx1>>

SoftmaxCrossEntropy_backward(fn, gy) ==
    LET x == fn.inputs[1]
        t == fn.inputs[2]
        CLS_NUM == x.shape[2]
        g == ew(gy, Arr(<<>>))
        y == softmax(x, 1)
        t_onehot == Arr(t.shape \o <<CLS_NUM>>)
    IN <<ew(ew(y, t_onehot), g)>>

\* mask = (x.data >= x_min) * (x.data <= x_max); gx = gy * mask
Clip_backward(fn, gy) == <<ew(gy, Arr(fn.inputs[1].shape))>>

\* f.backward(gy), by the class of f
Backward(fn, gy) ==
    CASE fn.kind = "Sin" -> Sin_backward(fn, gy)
      [] fn.kind = "Cos" -> Cos_backward(fn, gy)
      [] fn.kind = "Tanh" -> Tanh_backward(fn, gy)
      [] fn.kind = "Exp" -> Exp_backward(fn, gy)
      [] fn.kind = "Log" -> Log_backward(fn, gy)
      [] fn.kind = "Reshape" -> Reshape_backward(fn, gy)
      [] fn.kind = "Transpose" -> Transpose_backward(fn, gy)
      [] fn.kind = "GetItem" -> GetItem_backward(fn, gy)
      [] fn.kind = "GetItemGrad" -> GetItemGrad_backward(fn, gy)
      [] fn.kind = "Sum" -> Sum_backward(fn, gy)
      [] fn.kind = "SumTo" -> SumTo_backward(fn, gy)
      [] fn.kind = "BroadcastTo" -> BroadcastTo_backward(fn, gy)
      [] fn.kind = "MatMul" -> MatMul_backward(fn, gy)
      [] fn.kind = "Linear" -> Linear_backward(fn, gy)
      [] fn.kind = "Sigmoid" -> Sigmoid_backward(fn, gy)
      [] fn.kind = "ReLU" -> ReLU_backward(fn, gy)
      [] fn.kind = "Softmax" -> Softmax_backward(fn, gy)
      [] fn.kind = "MeanSquaredError" -> MeanSquaredError_backward(fn, gy)
      [] fn.kind = "SoftmaxCrossEntropy" -> SoftmaxCrossEntropy_backward(fn, gy)
      [] fn.kind = "Clip" -> Clip_backward(fn, gy)

(***************************************************************************)
(* SpecPrim: the inputs are drawn, one primitive is called on them         *)
(* (Function.__call__ runs forward and keeps inputs and output), then its  *)
(* backward is called with a gradient of the output's shape.               *)
(***************************************************************************)
NoAttrs == [x_shape |-> <<>>]

NoFn == [kind |-> "None", inputs |-> <<>>, y |-> NoneVar, attrs |-> NoAttrs]

InputTuples ==
    {<<Arr(a)>> : a \in Shapes}
    \cup {<<Arr(a), Arr(b)>> : a, b \in Shapes}
    \cup {<<Arr(a), Arr(b), c>> :
            a, b \in Shapes, c \in {Arr(s) : s \in Shapes} \cup {NoneVar}}

NoCall == [name |-> "None", x |-> 0, shape |-> <<>>, nodes |-> <<>>, funcs |-> <<>>]

GraphIdle == nodes = <<>> /\ funcs = <<>> /\ ret = 0 /\ call = NoCall

NoOut == [called |-> FALSE]

DropIdle == train = TRUE /\ dout = NoOut

PreIdle ==
    /\ text = <<>>
    /\ words = <<>>
    /\ word_to_id = <<>>
    /\ id_to_word = <<>>
    /\ wpos = 0
    /\ corpus = <<>>

CoIdle ==
    /\ vocab_size = 0
    /\ window_size = 0
    /\ co_matrix = <<>>
    /\ widx = 0
    /\ woff = 0

InitPrim ==
    /\ pc = "init"
    /\ inputs \in InputTuples
    /\ f = NoFn
    /\ ygrad = NoneVar
    /\ gxs = <<>>
    /\ GraphIdle
    /\ DropIdle
    /\ PreIdle
    /\ CoIdle

\* Function.__call__: forward ran without an exception and returned y
Forward(kind, attrs, y) ==
    /\ pc = "init"
    /\ IsArr(y)
    /\ f' = [kind |-> kind, inputs |-> inputs, y |-> y, attrs |-> attrs]
    /\ pc' = "forward"
    /\ UNCHANGED <<inputs, ygrad, gxs, notPrim>>

Call_Sin ==
    /\ pc = "init"
    /\ Len(inputs) = 1
    /\ Forward("Sin", NoAttrs, Elementwise_forward(inputs[1]))

Call_Cos ==
    /\ pc = "init"
    /\ Len(inputs) = 1
    /\ Forward("Cos", NoAttrs, Elementwise_forward(inputs[1]))

Call_Tanh ==
    /\ pc = "init"
    /\ Len(inputs) = 1
    /\ Forward("Tanh", NoAttrs, Elementwise_forward(inputs[1]))

Call_Exp ==
    /\ pc = "init"
    /\ Len(inputs) = 1
    /\ Forward("Exp", NoAttrs, Elementwise_forward(inputs[1]))

Call_Log ==
    /\ pc = "init"
    /\ Len(inputs) = 1
    /\ Forward("Log", NoAttrs, Elementwise_forward(inputs[1]))

Call_Sigmoid ==
    /\ pc = "init"
    /\ Len(inputs) = 1
    /\ Forward("Sigmoid", NoAttrs, Elementwise_forward(inputs[1]))

Call_ReLU ==
    /\ pc = "init"
    /\ Len(inputs) = 1
    /\ Forward("ReLU", NoAttrs, Elementwise_forward(inputs[1]))

Call_Clip ==
    /\ pc = "init"
    /\ Len(inputs) = 1
    /\ Forward("Clip", NoAttrs, Elementwise_forward(inputs[1]))

Call_Reshape ==
    /\ pc = "init"
    /\ Len(inputs) = 1
    /\ \E shape \in Shapes :
          Forward("Reshape", [shape |-> shape, x_shape |-> inputs[1].shape],
                  Reshape_forward(inputs[1], shape))

Call_Transpose ==
    /\ pc = "init"
    /\ Len(inputs) = 1
    /\ \E axes \in {AxesNone} \cup {Axes(p) : p \in Perms(Len(inputs[1].shape))} :
          Forward("Transpose", [axes |-> axes], Transpose_forward(inputs[1], axes))

Call_GetItem ==
    /\ pc = "init"
    /\ Len(inputs) = 1
    /\ \E slices \in ValidSlices(inputs[1].shape) :
          Forward("GetItem", [slices |-> slices],
                  GetItem_forward(inputs[1], slices))

Call_GetItemGrad ==
    /\ pc = "init"
    /\ Len(inputs) = 1
    /\ \E in_shape \in Shapes :
          \E slices \in ValidSlices(in_shape) :
             /\ inputs[1].shape = IndexShape(in_shape, slices)
             /\ Forward("GetItemGrad", [slices |-> slices, in_shape |-> in_shape],
                        GetItemGrad_forward(inputs[1], slices, in_shape))

Call_Sum ==
    /\ pc = "init"
    /\ Len(inputs) = 1
    /\ \E axis \in ValidAxes(inputs[1].shape), keepdims \in BOOLEAN :
          Forward("Sum", [axis |-> axis, keepdims |-> keepdims,
                          x_shape |-> inputs[1].shape],
                  Sum_forward(inputs[1], axis, keepdims))

\* the target shapes sum_to reduces x to: those that broadcast to x.shape
Call_SumTo ==
    /\ pc = "init"
    /\ Len(inputs) = 1
    /\ \E shape \in Shapes :
          /\ CanBroadcastTo(shape, inputs[1].shape)
          /\ Forward("SumTo", [shape |-> shape, x_shape |-> inputs[1].shape],
                     SumTo_forward(inputs[1], shape))

Call_BroadcastTo ==
    /\ pc = "init"
    /\ Len(inputs) = 1
    /\ \E shape \in Shapes :
          Forward("BroadcastTo", [shape |-> shape, x_shape |-> inputs[1].shape],
                  BroadcastTo_forward(inputs[1], shape))

Call_Softmax ==
    /\ pc = "init"
    /\ Len(inputs) = 1
    /\ \E axis \in -Len(inputs[1].shape)..(Len(inputs[1].shape) - 1) :
          Forward("Softmax", [axis |-> axis], Softmax_forward(inputs[1], axis))

Call_MatMul ==
    /\ pc = "init"
    /\ Len(inputs) = 2
    /\ Forward("MatMul", NoAttrs, MatMul_forward(inputs[1], inputs[2]))

Call_Linear ==
    /\ pc = "init"
    /\ Len(inputs) = 3
    /\ Forward("Linear", NoAttrs, Linear_forward(inputs[1], inputs[2], inputs[3]))

Call_MeanSquaredError ==
    /\ pc = "init"
    /\ Len(inputs) = 2
    /\ Forward("MeanSquaredError", NoAttrs,
               MeanSquaredError_forward(inputs[1], inputs[2]))

Call_SoftmaxCrossEntropy ==
    /\ pc = "init"
    /\ Len(inputs) = 2
    /\ Forward("SoftmaxCrossEntropy", NoAttrs,
               SoftmaxCrossEntropy_forward(inputs[1], inputs[2]))

\* f.backward(gy) with gy a gradient of the output's shape
Call_backward ==
    /\ pc = "forward"
    /\ ygrad' = Arr(f.y.shape)
    /\ gxs' = Backward(f, ygrad')
    /\ pc' = "backward"
    /\ UNCHANGED <<inputs, f, notPrim>>

NextPrim ==
    \/ Call_Sin \/ Call_Cos \/ Call_Tanh \/ Call_Exp \/ Call_Log
    \/ Call_Reshape \/ Call_Transpose \/ Call_GetItem \/ Call_GetItemGrad
    \/ Call_Sum \/ Call_SumTo \/ Call_BroadcastTo
    \/ Call_MatMul \/ Call_Linear
    \/ Call_Sigmoid \/ Call_ReLU \/ Call_Softmax
    \/ Call_MeanSquaredError \/ Call_SoftmaxCrossEntropy \/ Call_Clip
    \/ Call_backward

SpecPrim == InitPrim /\ [][NextPrim]_vars

\* C1: backward returns as many gradients as the operation has inputs
C1_BackwardArity == pc = "backward" => Len(gxs) = Len(f.inputs)

\* every primitive but SoftmaxCrossEntropy returns one gradient per input
BackwardArityButSCE ==
    (pc = "backward" /\ f.kind # "SoftmaxCrossEntropy") => Len(gxs) = Len(f.inputs)

\* the gradient g matches the input x: both None, or arrays of one shape
SameShape(g, x) == g.kind = x.kind /\ g.shape = x.shape

\* C2: every gradient backward returns has the shape of the corresponding input
C2_GradShapes ==
    pc = "backward" =>
        \A i \in 1..Len(gxs) : i <= Len(f.inputs) => SameShape(gxs[i], f.inputs[i])

\* every primitive but MeanSquaredError returns gradients of the inputs' shapes
GradShapesButMSE ==
    (pc = "backward" /\ f.kind # "MeanSquaredError") =>
        \A i \in 1..Len(gxs) : i <= Len(f.inputs) => SameShape(gxs[i], f.inputs[i])

\* MeanSquaredError on inputs of one shape returns gradients of that shape
GradShapesMSESame ==
    (/\ pc = "backward"
     /\ f.kind = "MeanSquaredError"
     /\ f.inputs[1].shape = f.inputs[2].shape) =>
        \A i \in 1..2 : SameShape(gxs[i], f.inputs[i])

(***************************************************************************)
(* Part 2.  Array values.  An array is its shape and its elements in       *)
(* row-major order; the elements are integers.                             *)
(***************************************************************************)
\* largest number of axes of an array whose values are followed
MaxAxes == 3
\* largest number of elements of an array whose values are followed
MaxSize == 8
\* the elements of the input arrays range over -1..MaxVal
MaxVal == 2
Vals == -1..MaxVal

Array(shape, data) == [kind |-> "array", shape |-> shape, data |-> data]

Size(a) == Len(a.data)

\* np.arange(start, start + n).reshape(shape)
arange(shape, start) == Array(shape, [k \in 1..Prod(shape) |-> start + k - 1])

zeros(shape) == Array(shape, [k \in 1..Prod(shape) |-> 0])

ones(shape) == Array(shape, [k \in 1..Prod(shape) |-> 1])

\* the multi-index (0-based) of the k-th element (0-based) in row-major order
RECURSIVE Unravel(_, _)
Unravel(k, shape) ==
    IF shape = <<>> THEN <<>>
    ELSE LET rest == Prod(Tail(shape))
         IN <<k \div rest>> \o Unravel(k % rest, Tail(shape))

RECURSIVE Ravel(_, _)
Ravel(idx, shape) ==
    IF shape = <<>> THEN 0
    ELSE Head(idx) * Prod(Tail(shape)) + Ravel(Tail(idx), Tail(shape))

\* a[idx]
Get(a, idx) == a.data[Ravel(idx, a.shape) + 1]

ValueShapes == {s \in SeqsUpTo(1..MaxDim, MaxAxes) : Prod(s) <= MaxSize}

\* a.reshape(shape): the elements keep their row-major order
np_reshape(a, shape) == Array(shape, a.data)

\* a.transpose(axes): axis i of the result is axis axes[i] of a
np_transpose(a, axes) ==
    LET n == Len(a.shape)
        perm == IF axes.none THEN [i \in 1..n |-> n - i] ELSE axes.perm
        shape == TransposeShape(a.shape, perm)
        from == [j \in 1..n |-> CHOOSE i \in 1..n : Norm(perm[i], n) = j - 1]
        src(idx) == [j \in 1..n |-> idx[from[j]]]
    IN Array(shape, [k \in 1..Prod(shape) |-> Get(a, src(Unravel(k - 1, shape)))])

\* the rows (0-based, along axis 0) that an index expression selects, in order
SelectedRows(slices, n) ==
    IF slices.kind = "int" THEN <<Norm(slices.i, n)>>
    ELSE IF slices.kind = "list"
    THEN [j \in 1..Len(slices.idx) |-> Norm(slices.idx[j], n)]
    ELSE [j \in 1..(slices.stop - slices.start) |-> slices.start + j - 1]

RowLen(shape) == Prod(Tail(shape))

\* a[slices]
np_getitem(a, slices) ==
    LET rows == SelectedRows(slices, a.shape[1])
        w == RowLen(a.shape)
    IN Array(IndexShape(a.shape, slices),
             [k \in 1..(Len(rows) * w) |->
                 a.data[rows[((k - 1) \div w) + 1] * w + ((k - 1) % w) + 1]])

\* np.add.at(gx, slices, g): the selected rows are added to one after the
\* other, so that a row selected twice is added to twice
RECURSIVE add_at_rows(_, _, _, _, _)
add_at_rows(data, rows, g, w, j) ==
    IF j > Len(rows) THEN data
    ELSE add_at_rows(
            [k \in 1..Len(data) |->
                IF (k - 1) \div w = rows[j]
                THEN data[k] + g[(j - 1) * w + ((k - 1) % w) + 1]
                ELSE data[k]],
            rows, g, w, j + 1)

\* gx[slices] = g: a row selected twice keeps the last value written
np_assign_at(gx, slices, g) ==
    LET rows == SelectedRows(slices, gx.shape[1])
        w == RowLen(gx.shape)
        last(r) == CHOOSE j \in 1..Len(rows) :
                      rows[j] = r /\ \A i \in 1..Len(rows) : rows[i] = r => i <= j
    IN Array(gx.shape,
             [k \in 1..Len(gx.data) |->
                 IF \E j \in 1..Len(rows) : rows[j] = (k - 1) \div w
                 THEN g.data[(last((k - 1) \div w) - 1) * w + ((k - 1) % w) + 1]
                 ELSE gx.data[k]])

np_add_at(gx, slices, g) ==
    Array(gx.shape,
          add_at_rows(gx.data, SelectedRows(slices, gx.shape[1]), g.data,
                      RowLen(gx.shape), 1))

\* xp.clip(x, x_min, x_max)
Min(a, b) == IF a <= b THEN a ELSE b

\* xp.clip(x, x_min, x_max) = minimum(maximum(x, x_min), x_max)
np_clip(x, x_min, x_max) ==
    Array(x.shape, [k \in 1..Size(x) |-> Min(Max(x.data[k], x_min), x_max)])

\* a boolean as the number it multiplies as
AsInt(b) == IF b THEN 1 ELSE 0

\* a * b for arrays of one shape
np_mul(a, b) == Array(a.shape, [k \in 1..Size(a) |-> a.data[k] * b.data[k]])

(***************************************************************************)
(* Transpose, GetItem, GetItemGrad and Clip on array values                *)
(***************************************************************************)
Transpose_forwardV(x, axes) == np_transpose(x, axes)

transposeV(x, axes) == Transpose_forwardV(x, axes)

Transpose_backwardV(fn, g) ==
    IF fn.attrs.axes.none
    THEN <<transposeV(g, AxesNone)>>
    ELSE <<transposeV(g, Axes(inv_axes(fn.attrs.axes.perm)))>>

GetItem_forwardV(x, slices) == np_getitem(x, slices)

get_itemV(x, slices) == GetItem_forwardV(x, slices)

\* gx = xp.zeros(self.in_shape); xp.add.at(gx, self.slices, gy)
GetItemGrad_forwardV(g, slices, in_shape) == np_add_at(zeros(in_shape), slices, g)

GetItem_backwardV(fn, g) ==
    <<GetItemGrad_forwardV(g, fn.attrs.slices, fn.inputs[1].shape)>>

Clip_forwardV(x, x_min, x_max) == np_clip(x, x_min, x_max)

\* the mask with the two bounds left out
Clip_backwardV_strict(fn, g) ==
    LET x == fn.inputs[1]
        mask == Array(x.shape,
                      [k \in 1..Size(x) |->
                          AsInt(x.data[k] > fn.attrs.x_min)
                          * AsInt(x.data[k] < fn.attrs.x_max)])
    IN <<np_mul(g, mask)>>

\* mask = (x.data >= self.x_min) * (x.data <= self.x_max); gx = gy * mask
Clip_backwardV(fn, g) ==
    LET x == fn.inputs[1]
        mask == Array(x.shape,
                      [k \in 1..Size(x) |->
                          AsInt(x.data[k] >= fn.attrs.x_min)
                          * AsInt(x.data[k] <= fn.attrs.x_max)])
    IN <<np_mul(g, mask)>>

BackwardV(fn, g) ==
    CASE fn.kind = "Transpose" -> Transpose_backwardV(fn, g)
      [] fn.kind = "GetItem" -> GetItem_backwardV(fn, g)
      [] fn.kind = "Clip" -> Clip_backwardV(fn, g)

(***************************************************************************)
(* SpecArray: an array x is drawn, transpose, get_item or clip is called   *)
(* on it, then backward with an output gradient of the output's shape.     *)
(***************************************************************************)
\* every shape with elements 0, 1, 2, ...; of at most one axis, with any elements
InputArrays ==
    {arange(s, 0) : s \in ValueShapes}
    \cup UNION {{Array(s, d) : d \in [1..Prod(s) -> Vals]} :
                  s \in {t \in ValueShapes : Len(t) <= 1}}

\* output gradients: all ones (the seed of backpropagation), and 1, 2, 3, ...
Grads(shape) == {ones(shape), arange(shape, 1)}

InitArray ==
    /\ pc = "init"
    /\ inputs \in {<<x>> : x \in InputArrays}
    /\ f = NoFn
    /\ ygrad = NoneVar
    /\ gxs = <<>>
    /\ GraphIdle
    /\ DropIdle
    /\ PreIdle
    /\ CoIdle

Do_transpose ==
    /\ pc = "init"
    /\ \E axes \in {AxesNone} \cup {Axes(p) : p \in Perms(Len(inputs[1].shape))} :
       Forward("Transpose", [axes |-> axes], Transpose_forwardV(inputs[1], axes))

Do_get_item ==
    /\ pc = "init"
    /\ \E slices \in ValidSlices(inputs[1].shape) :
       Forward("GetItem", [slices |-> slices], GetItem_forwardV(inputs[1], slices))

Do_clip ==
    /\ pc = "init"
    /\ \E x_min \in Vals, x_max \in Vals :
       Forward("Clip", [x_min |-> x_min, x_max |-> x_max],
               Clip_forwardV(inputs[1], x_min, x_max))

Do_backward ==
    /\ pc = "forward"
    /\ \E g \in Grads(f.y.shape) :
          /\ ygrad' = g
          /\ gxs' = BackwardV(f, g)
    /\ pc' = "backward"
    /\ UNCHANGED <<inputs, f, notPrim>>

NextArray == Do_transpose \/ Do_get_item \/ Do_clip \/ Do_backward

SpecArray == InitArray /\ [][NextArray]_vars

Indices(shape) == {Unravel(k, shape) : k \in 0..(Prod(shape) - 1)}

\* C4: Transpose.backward permutes the axes of the output gradient back:
\* inv_axes[axes[i] mod rank] = i, the gradient has the input's shape, its
\* element at idx is the output gradient's element at idx permuted by axes,
\* and with axes None the gradient is the output gradient with axes reversed
C4_TransposeInverse ==
    (pc = "backward" /\ f.kind = "Transpose") =>
        LET x == f.inputs[1]
            n == Len(x.shape)
            axes == f.attrs.axes
            gx == gxs[1]
        IN /\ Len(gxs) = 1
           /\ gx.shape = x.shape
           /\ ~axes.none =>
                 /\ \A i \in 1..n :
                       inv_axes(axes.perm)[Norm(axes.perm[i], n) + 1] = i - 1
                 /\ \A idx \in Indices(x.shape) :
                       Get(gx, idx)
                         = Get(ygrad, [i \in 1..n |-> idx[Norm(axes.perm[i], n) + 1]])
                 /\ transposeV(f.y, Axes(inv_axes(axes.perm))) = x
           /\ axes.none =>
                 /\ \A idx \in Indices(x.shape) : Get(gx, idx) = Get(ygrad, Rev(idx))
                 /\ transposeV(f.y, AxesNone) = x

\* a permutation that is not its own inverse, some axes negative
C4_Witness ==
    /\ pc = "backward"
    /\ f.kind = "Transpose"
    /\ ~f.attrs.axes.none
    /\ f.attrs.axes.perm = <<-2, 2, 0>>
    /\ f.inputs[1].shape = <<1, 2, 2>>
    /\ gxs[1].shape = <<1, 2, 2>>

\* the sum of the rows j of the gradient g that were read from row r of x
RECURSIVE RowSum(_, _, _, _, _, _)
RowSum(g, rows, r, q, w, j) ==
    IF j > Len(rows) THEN 0
    ELSE (IF rows[j] = r THEN g.data[(j - 1) * w + q + 1] ELSE 0)
         + RowSum(g, rows, r, q, w, j + 1)

\* C5: GetItem.backward gives an array of the input's shape in which every
\* position holds the sum of the output-gradient entries read from it: 0
\* for a position not selected, the sum of all k entries for one selected k times
C5_ScatterAdd ==
    (pc = "backward" /\ f.kind = "GetItem") =>
        LET x == f.inputs[1]
            gx == gxs[1]
            w == RowLen(x.shape)
            rows == SelectedRows(f.attrs.slices, x.shape[1])
        IN /\ Len(gxs) = 1
           /\ gx.shape = x.shape
           /\ Size(gx) = Size(x)
           /\ \A r \in 0..(x.shape[1] - 1), q \in 0..(w - 1) :
                 gx.data[r * w + q + 1] = RowSum(ygrad, rows, r, q, w, 1)

\* row 0 selected twice, row 1 not selected, the gradient 1, 2, ...
C5_Witness ==
    /\ pc = "backward"
    /\ f.kind = "GetItem"
    /\ f.attrs.slices = ListIdx(<<0, -2>>)
    /\ f.inputs[1].shape = <<2>>
    /\ ygrad.data = <<1, 2>>
    /\ gxs[1].data = <<3, 0>>

\* C6: Clip.backward passes the output gradient where x_min <= x <= x_max,
\* the two bounds included, and gives 0 elsewhere
C6_ClipMask ==
    (pc = "backward" /\ f.kind = "Clip") =>
        LET x == f.inputs[1]
            gx == gxs[1]
        IN /\ Len(gxs) = 1
           /\ gx.shape = x.shape
           /\ Size(gx) = Size(x)
           /\ \A k \in 1..Size(x) :
                 gx.data[k] =
                    IF f.attrs.x_min <= x.data[k] /\ x.data[k] <= f.attrs.x_max
                    THEN ygrad.data[k] ELSE 0

\* x = (0, 2) clipped to [0, 1]: the element at x_min keeps its gradient
C6_Witness ==
    /\ pc = "backward"
    /\ f.kind = "Clip"
    /\ f.attrs.x_min = 0
    /\ f.attrs.x_max = 1
    /\ f.inputs[1].data = <<0, 2>>
    /\ ygrad.data = <<1, 2>>
    /\ gxs[1].data = <<1, 0>>

(***************************************************************************)
(* Part 3.  reshape, sum_to and broadcast_to on the computation graph.     *)
(* A Variable of the graph has its data, its creator (0: none) and its     *)
(* generation; a Function has its inputs and outputs (Variables by their   *)
(* position in nodes) and its generation.                                  *)
(***************************************************************************)
\* largest number of Variables the forward calls build
MaxNodes == 3
\* largest number of elements of an array of the graph
MaxElems == 4

GraphShapes == {s \in Shapes : Prod(s) <= MaxElems}

RECURSIVE SumSeq(_)
SumSeq(q) == IF q = <<>> THEN 0 ELSE Head(q) + SumSeq(Tail(q))

\* xp.broadcast_to(a, shape)
np_broadcast_to(a, shape) ==
    LET lead == Len(shape) - Len(a.shape)
        src(idx) == [j \in 1..Len(a.shape) |->
                        IF a.shape[j] = 1 THEN 0 ELSE idx[j + lead]]
    IN Array(shape, [k \in 1..Prod(shape) |-> Get(a, src(Unravel(k - 1, shape)))])

\* utils.sum_to on values: every element of x is added to the element of
\* the result it is broadcast from
utils_sum_toV(x, shape) ==
    LET lead == Len(x.shape) - Len(shape)
        out == [i \in 1..Len(shape) |->
                   IF shape[i] = 1 THEN 1 ELSE x.shape[i + lead]]
        dst(jdx) == [i \in 1..Len(shape) |->
                        IF shape[i] = 1 THEN 0 ELSE jdx[i + lead]]
    IN Array(out,
             [k \in 1..Prod(out) |->
                 SumSeq([j \in 1..Size(x) |->
                            IF dst(Unravel(j - 1, x.shape)) = Unravel(k - 1, out)
                            THEN x.data[j] ELSE 0])])

Graph(ns, fs) == [nodes |-> ns, funcs |-> fs]

\* Variable(data): a leaf
Variable(data) == [data |-> data, creator |-> 0, generation |-> 0]

RECURSIVE MaxGeneration(_, _)
MaxGeneration(g, xs) ==
    IF xs = <<>> THEN 0
    ELSE Max(g.nodes[Head(xs)].generation, MaxGeneration(g, Tail(xs)))

\* Function.__call__: the Function takes the generation of its inputs, its
\* output is a new Variable created by it, one generation later
G_call(g, kind, attrs, xs, y) ==
    LET fid == Len(g.funcs) + 1
        nid == Len(g.nodes) + 1
        gen == MaxGeneration(g, xs)
    IN [g |-> Graph(Append(g.nodes,
                           [data |-> y, creator |-> fid, generation |-> gen + 1]),
                    Append(g.funcs,
                           [kind |-> kind, attrs |-> attrs, inputs |-> xs,
                            outputs |-> <<nid>>, generation |-> gen])),
        out |-> nid]

\* as_variable(x) of a Variable is x
as_variable(g, x) == [g |-> g, out |-> x]

\* reshape without its shortcut for an unchanged shape
G_reshape_always(g, x, shape) ==
    G_call(g, "Reshape", [shape |-> shape, x_shape |-> g.nodes[x].data.shape],
           <<x>>, np_reshape(g.nodes[x].data, shape))

G_reshape(g, x, shape) ==
    IF g.nodes[x].data.shape = shape
    THEN as_variable(g, x)
    ELSE G_call(g, "Reshape", [shape |-> shape, x_shape |-> g.nodes[x].data.shape],
                <<x>>, np_reshape(g.nodes[x].data, shape))

G_sum_to(g, x, shape) ==
    IF g.nodes[x].data.shape = shape
    THEN as_variable(g, x)
    ELSE G_call(g, "SumTo", [shape |-> shape, x_shape |-> g.nodes[x].data.shape],
                <<x>>, utils_sum_toV(g.nodes[x].data, shape))

G_broadcast_to(g, x, shape) ==
    IF g.nodes[x].data.shape = shape
    THEN as_variable(g, x)
    ELSE G_call(g, "BroadcastTo",
                [shape |-> shape, x_shape |-> g.nodes[x].data.shape],
                <<x>>, np_broadcast_to(g.nodes[x].data, shape))

\* Reshape.backward with the target shape in the place of the saved x_shape
G_Reshape_backward_shape(g, fn, gyid) == G_reshape(g, gyid, fn.attrs.shape)

G_Reshape_backward(g, fn, gyid) == G_reshape(g, gyid, fn.attrs.x_shape)

G_SumTo_backward(g, fn, gyid) == G_broadcast_to(g, gyid, fn.attrs.x_shape)

G_BroadcastTo_backward(g, fn, gyid) == G_sum_to(g, gyid, fn.attrs.x_shape)

G_backward(g, fn, gyid) ==
    CASE fn.kind = "Reshape" -> G_Reshape_backward(g, fn, gyid)
      [] fn.kind = "SumTo" -> G_SumTo_backward(g, fn, gyid)
      [] fn.kind = "BroadcastTo" -> G_BroadcastTo_backward(g, fn, gyid)

(***************************************************************************)
(* SpecGraph: a leaf x is drawn; reshape, sum_to and broadcast_to are      *)
(* called one on the result of the other, as in reshape(reshape(x, s), t); *)
(* at the end the backward of one of the Functions is called on a new      *)
(* gradient Variable.                                                      *)
(***************************************************************************)
PrimIdle == inputs = <<>> /\ f = NoFn /\ ygrad = NoneVar /\ gxs = <<>>

InitGraph ==
    /\ pc = "graph"
    /\ nodes \in {<<Variable(arange(s, 0))>> : s \in GraphShapes}
    /\ funcs = <<>>
    /\ ret = 1
    /\ call = NoCall
    /\ PrimIdle
    /\ DropIdle
    /\ PreIdle
    /\ CoIdle

\* the call name(x, shape) returned r
Called(name, x, shape, r) ==
    /\ nodes' = r.g.nodes
    /\ funcs' = r.g.funcs
    /\ ret' = r.out
    /\ call' = [name |-> name, x |-> x, shape |-> shape,
                nodes |-> nodes, funcs |-> funcs]

Do_reshape ==
    /\ pc = "graph"
    /\ Len(nodes) < MaxNodes
    /\ \E x \in {ret}, shape \in GraphShapes :
          /\ Prod(shape) = Size(nodes[x].data)
          /\ Called("reshape", x, shape, G_reshape(Graph(nodes, funcs), x, shape))
    /\ UNCHANGED <<pc, notGraph>>

Do_sum_to ==
    /\ pc = "graph"
    /\ Len(nodes) < MaxNodes
    /\ \E x \in {ret}, shape \in GraphShapes :
          /\ CanBroadcastTo(shape, nodes[x].data.shape)
          /\ Called("sum_to", x, shape, G_sum_to(Graph(nodes, funcs), x, shape))
    /\ UNCHANGED <<pc, notGraph>>

Do_broadcast_to ==
    /\ pc = "graph"
    /\ Len(nodes) < MaxNodes
    /\ \E x \in {ret}, shape \in GraphShapes :
          /\ CanBroadcastTo(nodes[x].data.shape, shape)
          /\ Called("broadcast_to", x, shape,
                    G_broadcast_to(Graph(nodes, funcs), x, shape))
    /\ UNCHANGED <<pc, notGraph>>

\* funcs[k].backward(gy) on a new Variable gy of the shape of the output
Do_graph_backward ==
    /\ pc = "graph"
    /\ \E k \in 1..Len(funcs) :
          \E g \in Grads(nodes[funcs[k].outputs[1]].data.shape) :
             LET gyid == Len(nodes) + 1
                 g1 == Graph(Append(nodes, Variable(g)), funcs)
             IN Called("backward", gyid, funcs[k].attrs.x_shape,
                       G_backward(g1, funcs[k], gyid))
                /\ ygrad' = g
                /\ f' = funcs[k]
    /\ pc' = "backward"
    /\ UNCHANGED <<inputs, gxs, dropVars, preVars, coVars>>

NextGraph == Do_reshape \/ Do_sum_to \/ Do_broadcast_to \/ Do_graph_backward

SpecGraph == InitGraph /\ [][NextGraph]_vars

ClassOf(name) ==
    CASE name = "reshape" -> "Reshape"
      [] name = "sum_to" -> "SumTo"
      [] name = "broadcast_to" -> "BroadcastTo"

\* C9: reshape, sum_to and broadcast_to called with the shape x has create
\* nothing and return x itself; called with another shape they create one
\* Function of their class, and return its one output, a new Variable
C9_NoOpShortcut ==
    (pc = "graph" /\ call.name # "None") =>
        LET x == call.x
            nf == Len(call.funcs)
            nn == Len(call.nodes)
        IN IF call.shape = call.nodes[x].data.shape
           THEN /\ funcs = call.funcs
                /\ nodes = call.nodes
                /\ ret = x
                /\ nodes[ret] = call.nodes[x]
           ELSE /\ Len(funcs) = nf + 1
                /\ SubSeq(funcs, 1, nf) = call.funcs
                /\ funcs[nf + 1].kind = ClassOf(call.name)
                /\ funcs[nf + 1].inputs = <<x>>
                /\ funcs[nf + 1].outputs = <<ret>>
                /\ Len(nodes) = nn + 1
                /\ SubSeq(nodes, 1, nn) = call.nodes
                /\ ret = nn + 1
                /\ nodes[ret].creator = nf + 1
                /\ nodes[ret].data.shape = call.shape

\* sum_to(y, y.shape) on the output y of a BroadcastTo: y itself, which
\* keeps its creator and its generation
C9_Witness ==
    /\ pc = "graph"
    /\ call.name = "sum_to"
    /\ call.shape = call.nodes[call.x].data.shape
    /\ Len(funcs) = 1
    /\ funcs[1].kind = "BroadcastTo"
    /\ ret = 2
    /\ nodes[ret].creator = 1
    /\ nodes[ret].generation = 1

\* C3: reshape(reshape(x, s2), x.shape) has the value of x, element for
\* element, and the shape of x; Reshape.backward gives the output gradient,
\* its elements in the same order, in the shape x had at forward
C3_ReshapeRoundTrip ==
    /\ (pc = "graph" /\ call.name = "reshape") =>
          LET y == call.nodes[call.x]
          IN /\ nodes[ret].data.shape = call.shape
             /\ call.shape = y.data.shape => nodes[ret].data = y.data
             /\ (/\ y.creator # 0
                 /\ call.funcs[y.creator].kind = "Reshape"
                 /\ call.funcs[y.creator].attrs.x_shape = call.shape) =>
                   nodes[ret].data = nodes[call.funcs[y.creator].inputs[1]].data
    /\ (pc = "backward" /\ f.kind = "Reshape") =>
          /\ nodes[ret].data.shape = nodes[f.inputs[1]].data.shape
          /\ nodes[ret].data.data = ygrad.data

\* x of shape (1, 2) reshaped to (2,) and back, then the backward of the
\* second Reshape gives a gradient of shape (2,)
C3_Witness ==
    /\ pc = "backward"
    /\ Len(call.funcs) = 2
    /\ call.funcs[1].kind = "Reshape"
    /\ call.funcs[2].kind = "Reshape"
    /\ call.funcs[2].inputs = <<2>>
    /\ nodes[1].data.shape = <<1, 2>>
    /\ nodes[2].data.shape = <<2>>
    /\ nodes[3].data = nodes[1].data
    /\ f = call.funcs[2]
    /\ ygrad.data = <<1, 2>>
    /\ nodes[ret].data = Array(<<2>>, <<1, 2>>)

(***************************************************************************)
(* Part 4.  MatMul and Linear on array values.                             *)
(***************************************************************************)
\* sum over k of x[i, k] * W[k, j] (0-based i, j)
DotAt(x, W, i, j) ==
    SumSeq([k \in 1..x.shape[2] |-> Get(x, <<i, k - 1>>) * Get(W, <<k - 1, j>>)])

\* x.dot(W) for matrices
np_dot(x, W) ==
    LET shape == DotShape(x.shape, W.shape)
    IN Array(shape,
             [k \in 1..Prod(shape) |->
                 DotAt(x, W, (k - 1) \div shape[2], (k - 1) % shape[2])])

\* y += b: b is broadcast to the shape of y
np_iadd(y, b) ==
    LET bb == np_broadcast_to(b, y.shape)
    IN Array(y.shape, [k \in 1..Size(y) |-> y.data[k] + bb.data[k]])

MatMul_forwardV(x, W) ==
    IF CanDot(x.shape, W.shape) THEN np_dot(x, W) ELSE Raised

matmulV(x, W) == MatMul_forwardV(x, W)

\* Variable.T
T(x) == transposeV(x, AxesNone)

MatMul_backwardV(fn, g) ==
    LET x == fn.inputs[1]
        W == fn.inputs[2]
        gx == matmulV(g, T(W))
        gW == matmulV(T(x), g)
    IN <<gx, gW>>

Linear_forwardV(x, W, b) ==
    LET y == MatMul_forwardV(x, W)
    IN IF ~IsArr(y) THEN Raised
       ELSE IF b.kind = "None" THEN y
       ELSE IF CanBroadcastTo(b.shape, y.shape) THEN np_iadd(y, b)
       ELSE Raised

\* sum_to on values; the shape of a Variable without data cannot be read
sum_toV(x, shape) ==
    IF x.shape = shape THEN x ELSE utils_sum_toV(x, shape)

\* Linear.backward without the test for a missing bias
Linear_backwardV_nocheck(fn, g) ==
    LET x == fn.inputs[1]
        W == fn.inputs[2]
        b == fn.inputs[3]
        gb == IF b.kind = "None" THEN Raised ELSE sum_toV(g, b.shape)
        gx == matmulV(g, T(W))
        gW == matmulV(T(x), g)
    IN <<gx, gW, gb>>

\* Linear.backward with the output gradient itself as the bias gradient
Linear_backwardV_nosum(fn, g) ==
    LET x == fn.inputs[1]
        W == fn.inputs[2]
        b == fn.inputs[3]
        gb == IF b.kind = "None" THEN NoneVar ELSE g
        gx == matmulV(g, T(W))
        gW == matmulV(T(x), g)
    IN <<gx, gW, gb>>

Linear_backwardV(fn, g) ==
    LET x == fn.inputs[1]
        W == fn.inputs[2]
        b == fn.inputs[3]
        gb == IF b.kind = "None" THEN NoneVar ELSE sum_toV(g, b.shape)
        gx == matmulV(g, T(W))
        gW == matmulV(T(x), g)
    IN <<gx, gW, gb>>

BackwardL(fn, g) ==
    CASE fn.kind = "MatMul" -> MatMul_backwardV(fn, g)
      [] fn.kind = "Linear" -> Linear_backwardV(fn, g)

(***************************************************************************)
(* SpecLinear: x, W and b (an array or None) are drawn; matmul(x, W) or    *)
(* linear(x, W, b) is called, then backward.                               *)
(***************************************************************************)
\* the first elements of the input matrices, which count up from there
Starts == {-1, 2}

Matrices(n, k) == {arange(<<n, k>>, a) : a \in Starts}

\* the shapes of a bias that y += b accepts for y of shape (n, k)
BiasShapes(n, k) == {s \in Shapes : CanBroadcastTo(s, <<n, k>>)}

InitLinear ==
    /\ pc = "init"
    /\ \E n \in 1..MaxDim, i \in 1..MaxDim, o \in 1..MaxDim :
          inputs \in
            {<<x, W, b>> :
               x \in Matrices(n, i), W \in Matrices(i, o),
               b \in {NoneVar}
                     \cup {arange(s, a) : s \in BiasShapes(n, o), a \in Starts}}
    /\ f = NoFn
    /\ ygrad = NoneVar
    /\ gxs = <<>>
    /\ GraphIdle
    /\ DropIdle
    /\ PreIdle
    /\ CoIdle

\* matmul(x, W)
Lin_matmul ==
    /\ pc = "init"
    /\ f' = [kind |-> "MatMul", inputs |-> <<inputs[1], inputs[2]>>,
             y |-> MatMul_forwardV(inputs[1], inputs[2]), attrs |-> NoAttrs]
    /\ pc' = "forward"
    /\ UNCHANGED <<inputs, ygrad, gxs, notPrim>>

\* linear(x, W, b)
Lin_linear ==
    /\ pc = "init"
    /\ Forward("Linear", NoAttrs, Linear_forwardV(inputs[1], inputs[2], inputs[3]))

Lin_backward ==
    /\ pc = "forward"
    /\ \E g \in Grads(f.y.shape) :
          /\ ygrad' = g
          /\ gxs' = BackwardL(f, g)
    /\ pc' = "backward"
    /\ UNCHANGED <<inputs, f, notPrim>>

NextLinear == Lin_matmul \/ Lin_linear \/ Lin_backward

SpecLinear == InitLinear /\ [][NextLinear]_vars

\* the sum of the elements of g that are broadcast from element idx of an
\* array of the given shape
SumOver(g, shape, idx) ==
    LET lead == Len(g.shape) - Len(shape)
    IN SumSeq([j \in 1..Size(g) |->
                  IF \A i \in 1..Len(shape) :
                        idx[i] = (IF shape[i] = 1 THEN 0
                                  ELSE Unravel(j - 1, g.shape)[i + lead])
                  THEN g.data[j] ELSE 0])

\* C7: Linear with a bias returns x.W + b and the bias gradient is the
\* output gradient summed to b's shape; with no bias it returns x.W and the
\* bias gradient None; gx and gW are those of MatMul.backward on x, W, gy
C7_LinearBias ==
    (pc = "backward" /\ f.kind = "Linear") =>
        LET x == f.inputs[1]
            W == f.inputs[2]
            b == f.inputs[3]
            n == x.shape[1]
            o == W.shape[2]
            mm == MatMul_backwardV([kind |-> "MatMul", inputs |-> <<x, W>>,
                                    y |-> MatMul_forwardV(x, W),
                                    attrs |-> NoAttrs], ygrad)
        IN /\ Len(gxs) = 3
           /\ f.y.shape = <<n, o>>
           /\ gxs[1] = mm[1]
           /\ gxs[2] = mm[2]
           /\ gxs[1].shape = x.shape
           /\ gxs[2].shape = W.shape
           /\ \A i \in 0..(n - 1), k \in 0..(x.shape[2] - 1) :
                 Get(gxs[1], <<i, k>>)
                   = SumSeq([j \in 1..o |-> Get(ygrad, <<i, j - 1>>) * Get(W, <<k, j - 1>>)])
           /\ \A k \in 0..(x.shape[2] - 1), j \in 0..(o - 1) :
                 Get(gxs[2], <<k, j>>)
                   = SumSeq([i \in 1..n |-> Get(x, <<i - 1, k>>) * Get(ygrad, <<i - 1, j>>)])
           /\ b.kind = "None" =>
                 /\ gxs[3] = NoneVar
                 /\ \A i \in 0..(n - 1), j \in 0..(o - 1) :
                       Get(f.y, <<i, j>>) = DotAt(x, W, i, j)
           /\ b.kind # "None" =>
                 /\ gxs[3].kind = "array"
                 /\ gxs[3].shape = b.shape
                 /\ \A idx \in Indices(b.shape) :
                       Get(gxs[3], idx) = SumOver(ygrad, b.shape, idx)
                 /\ \A i \in 0..(n - 1), j \in 0..(o - 1) :
                       Get(f.y, <<i, j>>)
                         = DotAt(x, W, i, j)
                           + Get(np_broadcast_to(b, <<n, o>>), <<i, j>>)

\* a bias of shape (2,) under an output of shape (2, 2): the gradient
\* 1, 2, 3, 4 is summed over the rows
C7_Witness ==
    /\ pc = "backward"
    /\ f.kind = "Linear"
    /\ f.inputs[3].kind = "array"
    /\ f.inputs[3].shape = <<2>>
    /\ f.inputs[1].shape = <<2, 1>>
    /\ ygrad.data = <<1, 2, 3, 4>>
    /\ gxs[3].data = <<4, 6>>

\* no bias: the third gradient is None
C7_WitnessNoBias ==
    /\ pc = "backward"
    /\ f.kind = "Linear"
    /\ f.inputs[3].kind = "None"
    /\ gxs[3] = NoneVar

(***************************************************************************)
(* Part 5.  dropout.  The elements of x are integers, its dtype is a float *)
(* or an integer type; a quotient is kept as numerator and denominator     *)
(* (float rounding is left dout), a division by zero gives inf, -inf or nan *)
(* as numpy's true division does.                                          *)
(***************************************************************************)
\* dropout_ratio = p / q with 0 <= p < q <= MaxDen
MaxDen == 3

Ratios == {<<p, q>> \in (0..MaxDen) \X (1..MaxDen) : p < q}

DTypes == {"float32", "int64"}

Typed(a, dtype) == [kind |-> "array", shape |-> a.shape, data |-> a.data, dtype |-> dtype]

Num(n, d) == [kind |-> "num", num |-> n, den |-> d]

NaN == [kind |-> "nan", num |-> 0, den |-> 1]

Inf(sign) == [kind |-> IF sign > 0 THEN "inf" ELSE "-inf", num |-> 0, den |-> 1]

\* xp.array(1.0 - dropout_ratio).astype(dtype): an integer dtype truncates
scale_astype(ratio, dtype) ==
    IF dtype = "int64"
    THEN <<(ratio[2] - ratio[1]) \div ratio[2], 1>>
    ELSE <<ratio[2] - ratio[1], ratio[2]>>

\* v / (n / d), numpy's true division
true_divide(v, scale) ==
    IF scale[1] = 0
    THEN (IF v = 0 THEN NaN ELSE Inf(v))
    ELSE Num(v * scale[2], scale[1])

\* y = x * mask / scale
dropout_train(x, ratio, mask) ==
    LET scale == scale_astype(ratio, x.dtype)
    IN [kind |-> "array", shape |-> x.shape,
        dtype |-> IF x.dtype = "int64" THEN "float64" ELSE x.dtype,
        data |-> [k \in 1..Size(x) |->
                     true_divide(x.data[k] * AsInt(mask[k]), scale)]]

\* dropout(x, dropout_ratio) under Config.train = flag; mask is what
\* xp.random.rand(*x.shape) > dropout_ratio gives when it is drawn
dropout(x, ratio, mask, flag) ==
    IF flag
    THEN [called |-> TRUE, train |-> flag, x |-> x, ratio |-> ratio,
          mask |-> mask, same |-> FALSE, y |-> dropout_train(x, ratio, mask)]
    ELSE [called |-> TRUE, train |-> flag, x |-> x, ratio |-> ratio,
          mask |-> <<>>, same |-> TRUE, y |-> x]

DropInputs ==
    UNION {{Typed(Array(s, d), t) : d \in [1..Prod(s) -> Vals], t \in DTypes} :
             s \in {u \in ValueShapes : Len(u) <= 1}}

PrimRest == f = NoFn /\ ygrad = NoneVar /\ gxs = <<>>

InitDrop ==
    /\ pc = "dropout"
    /\ inputs \in {<<x>> : x \in DropInputs}
    /\ train \in BOOLEAN
    /\ dout = NoOut
    /\ PrimRest
    /\ GraphIdle
    /\ PreIdle
    /\ CoIdle

\* Config.train is set (test_mode, using_config)
Drop_set_train ==
    /\ pc = "dropout"
    /\ \E b \in BOOLEAN : train' = b
    /\ UNCHANGED <<pc, inputs, dout, notDrop>>

Drop_dropout ==
    /\ pc = "dropout"
    /\ \E ratio \in Ratios, mask \in [1..Size(inputs[1]) -> BOOLEAN] :
          dout' = dropout(inputs[1], ratio, mask, train)
    /\ UNCHANGED <<pc, inputs, train, notDrop>>

NextDrop == Drop_set_train \/ Drop_dropout

SpecDrop == InitDrop /\ [][NextDrop]_vars

\* e is the number 0
IsZero(e) == e.kind = "num" /\ e.num = 0

\* e is v / (1 - p/q) = v * q / (q - p)
IsScaled(e, v, ratio) ==
    e.kind = "num" /\ e.num * (ratio[2] - ratio[1]) = v * ratio[2] * e.den

\* C8: with Config.train false dropout returns x itself, no mask drawn;
\* with Config.train true every element of the result is 0 or the element
\* of x divided by 1 - dropout_ratio
C8_Dropout ==
    dout.called =>
        IF ~dout.train
        THEN dout.same /\ dout.y = dout.x /\ dout.mask = <<>>
        ELSE /\ ~dout.same
             /\ dout.y.shape = dout.x.shape
             /\ \A k \in 1..Size(dout.x) :
                   \/ IsZero(dout.y.data[k])
                   \/ IsScaled(dout.y.data[k], dout.x.data[k], dout.ratio)

\* the same for x of a float dtype, or dropout_ratio = 0
DropoutFloat ==
    (dout.called /\ (dout.x.dtype = "float32" \/ dout.ratio[1] = 0)) =>
        IF ~dout.train
        THEN dout.same /\ dout.y = dout.x /\ dout.mask = <<>>
        ELSE /\ ~dout.same
             /\ dout.y.shape = dout.x.shape
             /\ \A k \in 1..Size(dout.x) :
                   /\ dout.mask[k] => IsScaled(dout.y.data[k], dout.x.data[k], dout.ratio)
                   /\ ~dout.mask[k] => IsZero(dout.y.data[k])

\* x of an integer dtype and 0 < dropout_ratio: no element is a number
DropoutIntDividesByZero ==
    (/\ dout.called
     /\ dout.train
     /\ dout.x.dtype = "int64"
     /\ dout.ratio[1] > 0) =>
        \A k \in 1..Size(dout.x) : dout.y.data[k].kind # "num"

(***************************************************************************)
(* Part 6.  common/util.py: preprocess.  A text is a sequence of           *)
(* characters, a word a sequence of characters, a dict a function.         *)
(***************************************************************************)
\* the length of the longest text
MaxText == 4

Chars == {"a", "A", " ", "."}

Texts == SeqsUpTo(Chars, MaxText)

\* str.lower, one character
lower_char(c) == IF c = "A" THEN "a" ELSE c

\* text.lower()
lower(t) == [k \in 1..Len(t) |-> lower_char(t[k])]

RECURSIVE replace_dot(_)
\* text.replace(".", " .")
replace_dot(t) ==
    IF t = <<>> THEN <<>>
    ELSE (IF Head(t) = "." THEN <<" ", ".">> ELSE <<Head(t)>>)
             \o replace_dot(Tail(t))

RECURSIVE split(_)
\* text.split(" "): the pieces between the spaces, empty pieces included
split(t) ==
    IF \A k \in 1..Len(t) : t[k] # " " THEN <<t>>
    ELSE LET k == CHOOSE j \in 1..Len(t) :
                     t[j] = " " /\ \A h \in 1..(j - 1) : t[h] # " "
         IN <<SubSeq(t, 1, k - 1)>> \o split(SubSeq(t, k + 1, Len(t)))

\* len(d)
len(d) == Cardinality(DOMAIN d)

\* d[key] = value
setitem(d, key, value) ==
    [k \in DOMAIN d \cup {key} |-> IF k = key THEN value ELSE d[k]]

\* the body of the loop with no test of word not in word_to_id
loop_body_always(w2i, i2w, word) ==
    LET new_id == len(w2i)
    IN <<setitem(w2i, word, new_id), setitem(i2w, new_id, word)>>

\* the body of the loop: the two dicts after one word
loop_body(w2i, i2w, word) ==
    IF word \notin DOMAIN w2i
    THEN LET new_id == len(w2i)
         IN <<setitem(w2i, word, new_id), setitem(i2w, new_id, word)>>
    ELSE <<w2i, i2w>>

InitPre ==
    /\ pc = "preprocess"
    /\ text \in Texts
    /\ words = <<>>
    /\ word_to_id = <<>>
    /\ id_to_word = <<>>
    /\ wpos = 0
    /\ corpus = <<>>
    /\ PrimIdle
    /\ GraphIdle
    /\ DropIdle
    /\ CoIdle

\* lines 9-14: the text is split and the dicts are empty
Pre_split ==
    /\ pc = "preprocess"
    /\ words' = split(replace_dot(lower(text)))
    /\ word_to_id' = <<>>
    /\ id_to_word' = <<>>
    /\ wpos' = 1
    /\ pc' = "loop"
    /\ UNCHANGED <<text, corpus, notPre>>

\* lines 16-20: one word of the loop
Pre_loop ==
    /\ pc = "loop"
    /\ wpos <= Len(words)
    /\ LET d == loop_body(word_to_id, id_to_word, words[wpos])
       IN word_to_id' = d[1] /\ id_to_word' = d[2]
    /\ wpos' = wpos + 1
    /\ UNCHANGED <<pc, text, words, corpus, notPre>>

\* lines 22-25: the loop is over, the corpus is built and returned
Pre_return ==
    /\ pc = "loop"
    /\ wpos > Len(words)
    /\ corpus' = [k \in 1..Len(words) |-> word_to_id[words[k]]]
    /\ pc' = "return"
    /\ UNCHANGED <<text, words, word_to_id, id_to_word, wpos, notPre>>

NextPre == Pre_split \/ Pre_loop \/ Pre_return

SpecPre == InitPre /\ [][NextPre]_vars

\* the distinct words among the first n words
WordsUpTo(n) == {words[k] : k \in 1..n}

\* the position where w first appears
FirstPos(w) == CHOOSE k \in 1..Len(words) :
                  words[k] = w /\ \A j \in 1..(k - 1) : words[j] # w

\* C10: after the loop the ids are 0..n-1 for the n distinct words, a word
\* that first appears earlier has the smaller id, word_to_id and id_to_word
\* are inverse bijections, and corpus[k] = word_to_id[words[k]] for each
\* word of the split text
C10_PreprocessDenseIds ==
    pc = "return" =>
        LET ws == WordsUpTo(Len(words))
            n == Cardinality(ws)
        IN /\ DOMAIN word_to_id = ws
           /\ DOMAIN id_to_word = 0..(n - 1)
           /\ {word_to_id[w] : w \in ws} = 0..(n - 1)
           /\ \A w1, w2 \in ws :
                 FirstPos(w1) < FirstPos(w2) => word_to_id[w1] < word_to_id[w2]
           /\ \A w \in ws : id_to_word[word_to_id[w]] = w
           /\ \A i \in 0..(n - 1) : word_to_id[id_to_word[i]] = i
           /\ Len(corpus) = Len(words)
           /\ \A k \in 1..Len(words) : corpus[k] = word_to_id[words[k]]

\* a text with a repeated word, a distinct second word and an upper-case
\* letter has been processed
C10_Witness ==
    /\ pc = "return"
    /\ \E j, k \in 1..Len(words) : j < k /\ words[j] = words[k]
    /\ Cardinality(WordsUpTo(Len(words))) >= 2
    /\ \E k \in 1..Len(text) : text[k] = "A"

\* the same holds after each pass of the loop, for the words seen so far
PreLoopInv ==
    pc = "loop" =>
        LET ws == WordsUpTo(wpos - 1)
            n == Cardinality(ws)
        IN /\ DOMAIN word_to_id = ws
           /\ DOMAIN id_to_word = 0..(n - 1)
           /\ \A w \in ws : id_to_word[word_to_id[w]] = w

(***************************************************************************)
(* Part 7.  common/util.py: create_co_matrix.  corpus is a sequence of     *)
(* word ids, read with Python's 0-based index; co_matrix is a function on  *)
(* pairs of ids.  The counts stay far below 2^31, the width of np.int32.   *)
(***************************************************************************)
\* the length of the longest corpus
MaxCorpus == 4

\* the largest vocab_size
MaxVocab == 2

\* the largest window_size
MaxWindow == 2

Corpora(v) == SeqsUpTo(0..(v - 1), MaxCorpus)

\* corpus[k] for k in 0..len-1, and Python's wrap for k in -len..-1
corpus_at(corp, k) == IF k < 0 THEN corp[k + Len(corp) + 1] ELSE corp[k + 1]

\* co_matrix[a, b] += 1
incr(cm, a, b) == [cm EXCEPT ![<<a, b>>] = @ + 1]

\* the body of the inner loop with no test of left_idx >= 0
inner_body_wrap(cm, corp, idx, i) ==
    LET corpus_size == Len(corp)
        word_id == corpus_at(corp, idx)
        left_idx == idx - i
        right_idx == idx + i
        c1 == IF -left_idx <= corpus_size
              THEN incr(cm, word_id, corpus_at(corp, left_idx)) ELSE cm
    IN IF right_idx < corpus_size
       THEN incr(c1, word_id, corpus_at(corp, right_idx)) ELSE c1

\* the body of the inner loop: co_matrix after the pass idx, i
inner_body(cm, corp, idx, i) ==
    LET corpus_size == Len(corp)
        word_id == corpus_at(corp, idx)
        left_idx == idx - i
        right_idx == idx + i
        c1 == IF left_idx >= 0
              THEN incr(cm, word_id, corpus_at(corp, left_idx)) ELSE cm
    IN IF right_idx < corpus_size
       THEN incr(c1, word_id, corpus_at(corp, right_idx)) ELSE c1

InitCo ==
    /\ pc = "create_co_matrix"
    /\ vocab_size \in 1..MaxVocab
    /\ window_size \in 1..MaxWindow
    /\ corpus \in Corpora(vocab_size)
    /\ co_matrix = <<>>
    /\ widx = 0
    /\ woff = 0
    /\ text = <<>>
    /\ words = <<>>
    /\ word_to_id = <<>>
    /\ id_to_word = <<>>
    /\ wpos = 0
    /\ PrimIdle
    /\ GraphIdle
    /\ DropIdle

\* lines 87-88: the matrix of zeros, the loops at their first pass
Co_zeros ==
    /\ pc = "create_co_matrix"
    /\ co_matrix' = [ab \in (0..(vocab_size - 1)) \X (0..(vocab_size - 1)) |-> 0]
    /\ widx' = 0
    /\ woff' = 1
    /\ pc' = "co_loop"
    /\ UNCHANGED <<corpus, vocab_size, window_size, notCo>>

\* lines 90-101: one pass of the inner loop, then the next i or the next idx
Co_loop ==
    /\ pc = "co_loop"
    /\ widx < Len(corpus)
    /\ co_matrix' = inner_body(co_matrix, corpus, widx, woff)
    /\ IF woff < window_size
       THEN widx' = widx /\ woff' = woff + 1
       ELSE widx' = widx + 1 /\ woff' = 1
    /\ UNCHANGED <<pc, corpus, vocab_size, window_size, notCo>>

\* line 103: the loops are over
Co_return ==
    /\ pc = "co_loop"
    /\ widx >= Len(corpus)
    /\ pc' = "co_return"
    /\ UNCHANGED <<corpus, coVars, notCo>>

NextCo == Co_zeros \/ Co_loop \/ Co_return

SpecCo == InitCo /\ [][NextCo]_vars

\* the ordered pairs of positions p, q of the words a, b at most
\* window_size apart
Pairs(a, b) ==
    {pq \in (1..Len(corpus)) \X (1..Len(corpus)) :
        /\ corpus[pq[1]] = a
        /\ corpus[pq[2]] = b
        /\ pq[1] # pq[2]
        /\ pq[1] - pq[2] <= window_size
        /\ pq[2] - pq[1] <= window_size}

\* C11: the matrix create_co_matrix returns is symmetric, and
\* co_matrix[a, b] is the number of ordered pairs of positions p, q with
\* corpus[p] = a, corpus[q] = b and 1 <= |p - q| <= window_size; positions
\* beyond either end of the corpus add nothing
C11_CoMatrixSymmetric ==
    pc = "co_return" =>
        /\ DOMAIN co_matrix = (0..(vocab_size - 1)) \X (0..(vocab_size - 1))
        /\ \A a, b \in 0..(vocab_size - 1) :
              /\ co_matrix[<<a, b>>] = co_matrix[<<b, a>>]
              /\ co_matrix[<<a, b>>] = Cardinality(Pairs(a, b))

\* a matrix was returned for a corpus of two different words, shorter at
\* both ends than the window reaches
C11_Witness ==
    /\ pc = "co_return"
    /\ window_size >= 2
    /\ Len(corpus) >= 3
    /\ \E a, b \in 0..(vocab_size - 1) : a # b /\ co_matrix[<<a, b>>] >= 2

====
